---- MODULE Spec2Model ----
(***************************************************************************)
(* 01_pandas/03-tidy_data.ipynb: the notebook's cells as a state machine.   *)
(* A state holds the notebook's variables (messy, molten, tidy, ...); an    *)
(* action is one code cell, run in the order of the notebook.  A cell that  *)
(* raises assigns nothing and leaves the exception in `error`.              *)
(*                                                                         *)
(* A DataFrame is a record                                                  *)
(*   names   : the names of the index levels (<<>>: an unnamed RangeIndex), *)
(*   index   : the row labels, one per row,                                 *)
(*   columns : the column names, in order,                                  *)
(*   rows    : one function (column name -> cell) per row.                  *)
(* Text that the notebook slices (the codes m014, d1, wk1) is a sequence of *)
(* one-character strings; other text is a string.                          *)
(***************************************************************************)
EXTENDS Integers, Sequences, FiniteSets, TLC

VARIABLES section, pc, messy, id_vars, molten, tidy, messy1, tidy_track, tidy_rank, error

vars == <<section, pc, messy, id_vars, molten, tidy, messy1, tidy_track, tidy_rank, error>>

(* ------------------------------ bounds --------------------------------- *)

MaxRows == 2

MaxCols == 2

(* ------------------------------ values --------------------------------- *)

\* np.nan, the missing-value marker of a numeric column; the data are naturals.
NaN == -1

isna(v) == v = NaN

\* A name the notebook has not assigned yet.
Undefined == [undefined |-> TRUE]

IsDefined(df) == "undefined" \notin DOMAIN df

\* No exception pending.
NoError == "none"

\* pandas' pivot on a repeated (index, columns) pair:
\* ValueError("Index contains duplicate entries, cannot reshape").
DuplicateKeyError == "ValueError: Index contains duplicate entries, cannot reshape"

Range(s) == {s[i] : i \in DOMAIN s}

\* The ordering of the strings the model uses (Python compares code points).
Collation == <<"2000-01-29", "2000-02-26", "3:15", "4:22",
               "A", "AD", "AE", "Aaliyah", "Adams", "B", "C", "MX17004", "MX17005",
               "Open My Heart", "Try Again",
               "a", "ab3", "b", "c", "tmax", "tmin", "wk1", "wk2", "wkx">>

StrPos(s) == CHOOSE i \in 1..Len(Collation) : Collation[i] = s

\* The columns with a numeric (or datetime) dtype; the others hold text.
NumericColumns ==
    {"year", "month", "date", "rank", "value", "length", "cases", "index", "a", "b", "c", "tmax", "tmin"}

\* a < b in the ordering of column col's dtype.
Less(col, a, b) == IF col \in NumericColumns THEN a < b ELSE StrPos(a) < StrPos(b)

\* The values of S in ascending order of column col's dtype.
RECURSIVE SortSet(_, _)
SortSet(S, col) ==
    IF S = {} THEN <<>>
    ELSE LET m == CHOOSE x \in S : \A y \in S : ~Less(col, y, x)
         IN  <<m>> \o SortSet(S \ {m}, col)

\* The elements of the sequences of seqs, in order, each once (its first place).
RECURSIVE Union(_)
Union(seqs) ==
    IF seqs = <<>> THEN <<>>
    ELSE LET head == Union(SubSeq(seqs, 1, Len(seqs) - 1))
             New(x) == x \notin Range(head)
         IN  head \o SelectSeq(seqs[Len(seqs)], New)

Min(a, b) == IF a < b THEN a ELSE b

RangeIndex(n) == [k \in 1..n |-> k - 1]

DataFrame(cols, rws) ==
    [names |-> <<>>, index |-> RangeIndex(Len(rws)), columns |-> cols, rows |-> rws]

len(df) == Len(df.rows)

(* ------------------------------- melt ---------------------------------- *)

\* melt that stacks every column, the identifier columns too.
melt_all_columns(frame, ids, var_name, value_name) ==
    LET N == len(frame)
        K == Len(frame.columns)
        Row(k) ==
            LET c == frame.columns[((k - 1) \div N) + 1]
                r == frame.rows[((k - 1) % N) + 1]
            IN  [col \in Range(ids) \cup {var_name, value_name} |->
                    IF col = var_name THEN c
                    ELSE IF col = value_name THEN r[c]
                    ELSE r[col]]
    IN  DataFrame(ids \o <<var_name, value_name>>, [k \in 1..(N * K) |-> Row(k)])

\* melt that reads every value from the first stacked column.
melt_first_value(frame, ids, var_name, value_name) ==
    LET IsValue(c) == c \notin Range(ids)
        value_vars == SelectSeq(frame.columns, IsValue)
        N == len(frame)
        K == Len(value_vars)
        Row(k) ==
            LET c == value_vars[((k - 1) \div N) + 1]
                r == frame.rows[((k - 1) % N) + 1]
            IN  [col \in Range(ids) \cup {var_name, value_name} |->
                    IF col = var_name THEN c
                    ELSE IF col = value_name THEN r[value_vars[1]]
                    ELSE r[col]]
    IN  DataFrame(ids \o <<var_name, value_name>>, [k \in 1..(N * K) |-> Row(k)])

\* pd.melt(frame, id_vars=ids, var_name=var_name, value_name=value_name):
\* the columns outside ids, in the frame's order, are stacked one block of
\* len(frame) rows per column; the index is ignored and renumbered.
melt(frame, ids, var_name, value_name) ==
    LET IsValue(c) == c \notin Range(ids)
        value_vars == SelectSeq(frame.columns, IsValue)
        N == len(frame)
        K == Len(value_vars)
        Row(k) ==
            LET c == value_vars[((k - 1) \div N) + 1]
                r == frame.rows[((k - 1) % N) + 1]
            IN  [col \in Range(ids) \cup {var_name, value_name} |->
                    IF col = var_name THEN c
                    ELSE IF col = value_name THEN r[c]
                    ELSE r[col]]
    IN  DataFrame(ids \o <<var_name, value_name>>, [k \in 1..(N * K) |-> Row(k)])

(* ------------------------------- pivot --------------------------------- *)

\* Some (index, columns) pair labels two rows of frame.
HasDuplicateKeys(frame, index, columns) ==
    \E i, j \in 1..len(frame) :
        /\ i # j
        /\ frame.rows[i][index] = frame.rows[j][index]
        /\ frame.rows[i][columns] = frame.rows[j][columns]

\* unstack that leaves the index values and the columns values in their
\* order of appearance.
unstack_unsorted(frame, index, columns, values) ==
    LET idx  == Union(<<[k \in 1..len(frame) |-> frame.rows[k][index]]>>)
        cols == Union(<<[k \in 1..len(frame) |-> frame.rows[k][columns]]>>)
        Hit(i, c) == {r \in Range(frame.rows) : r[index] = i /\ r[columns] = c}
        Cell(i, c) == IF Hit(i, c) = {} THEN NaN
                      ELSE (CHOOSE r \in Hit(i, c) : TRUE)[values]
    IN  [names   |-> <<index>>,
         index   |-> idx,
         columns |-> cols,
         rows    |-> [k \in 1..Len(idx) |-> [c \in Range(cols) |-> Cell(idx[k], c)]]]

\* The wide table of a frame without repeated pairs: the index values and
\* the columns values sorted, the cell of a pair no row has NaN.
unstack(frame, index, columns, values) ==
    LET idx  == SortSet({r[index] : r \in Range(frame.rows)}, index)
        cols == SortSet({r[columns] : r \in Range(frame.rows)}, columns)
        Hit(i, c) == {r \in Range(frame.rows) : r[index] = i /\ r[columns] = c}
        Cell(i, c) == IF Hit(i, c) = {} THEN NaN
                      ELSE (CHOOSE r \in Hit(i, c) : TRUE)[values]
    IN  [names   |-> <<index>>,
         index   |-> idx,
         columns |-> cols,
         rows    |-> [k \in 1..Len(idx) |-> [c \in Range(cols) |-> Cell(idx[k], c)]]]

\* pivot that does not look for repeated pairs and keeps one of the values.
pivot_keep_one(frame, index, columns, values) ==
    [ok |-> TRUE, frame |-> unstack(frame, index, columns, values)]

\* frame.pivot(index=index, columns=columns, values=values): raises on a
\* repeated pair; else one row per index value and one column per columns
\* value, both sorted, NaN where no row has the pair.
pivot(frame, index, columns, values) ==
    IF HasDuplicateKeys(frame, index, columns)
    THEN [ok |-> FALSE, error |-> DuplicateKeyError]
    ELSE [ok |-> TRUE, frame |-> unstack(frame, index, columns, values)]

\* reset_index that drops the labels instead of keeping them as columns.
reset_index_labels_lost(df) == DataFrame(df.columns, df.rows)

\* df.reset_index(): the index levels become the leading columns (an unnamed
\* index becomes the column 'index') and the rows are renumbered.
reset_index(df) ==
    LET lead == IF df.names = <<>> THEN <<"index">> ELSE df.names
        Label(k, c) ==
            IF Len(lead) = 1 THEN df.index[k]
            ELSE df.index[k][CHOOSE p \in 1..Len(lead) : lead[p] = c]
    IN  DataFrame(lead \o df.columns,
                  [k \in 1..len(df) |->
                     [c \in Range(lead) \cup Range(df.columns) |->
                        IF c \in Range(lead) THEN Label(k, c) ELSE df.rows[k][c]]])

(* --------------------------- "Introduction" ---------------------------- *)

IntroColumns == <<"First", "Last", "Treatment A", "Treatment B", "Treatment C">>

\* A messy of the two name columns and n treatment columns.
IntroFrameColumns(n) == SubSeq(IntroColumns, 1, Min(2 + n, Len(IntroColumns)))

IntroRows(n) ==
    LET tc == Range(IntroFrameColumns(n)) \ {"First", "Last"}
    IN  {[c \in Range(IntroFrameColumns(n)) |->
            IF c = "First" THEN first ELSE IF c = "Last" THEN "Smith" ELSE v[c]] :
            first \in {"John", "Jane"}, v \in [tc -> {NaN, 3}]}

\* The identifier columns are any of the columns of messy, in its order
\* (the notebook passes ['First', 'Last']).
InitIntro ==
    /\ section = "intro"
    /\ pc = "melt"
    /\ \E n \in 0..MaxCols :
         /\ \E m \in 0..MaxRows :
              \E rws \in [1..m -> IntroRows(n)] :
                messy = DataFrame(IntroFrameColumns(n), rws)
         /\ \E S \in SUBSET Range(IntroFrameColumns(n)) :
              id_vars = SelectSeq(IntroFrameColumns(n), LAMBDA c : c \in S)
    /\ molten = Undefined
    /\ tidy = Undefined
    /\ messy1 = Undefined
    /\ tidy_track = Undefined
    /\ tidy_rank = Undefined
    /\ error = NoError

\* tidy = pd.melt(messy, id_vars=['First', 'Last'])
IntroMelt ==
    /\ section = "intro" /\ pc = "melt"
    /\ tidy' = melt(messy, id_vars, "variable", "value")
    /\ pc' = "melt_named"
    /\ UNCHANGED <<section, messy, id_vars, molten, messy1, tidy_track, tidy_rank, error>>

\* tidy = pd.melt(messy, id_vars=['First', 'Last'],
\*                var_name='treatment', value_name='result')
IntroMeltNamed ==
    /\ section = "intro" /\ pc = "melt_named"
    /\ tidy' = melt(messy, id_vars, "treatment", "result")
    /\ pc' = "done"
    /\ UNCHANGED <<section, messy, id_vars, molten, messy1, tidy_track, tidy_rank, error>>

NextIntro == IntroMelt \/ IntroMeltNamed

SpecIntro == InitIntro /\ [][NextIntro]_vars

(* ------------------- "A simple(r) melt example" ------------------------ *)

\* The columns a, b, c of messy, here in an order that is not the sorted one.
SimpleValueColumns == <<"c", "a", "b">>

SimpleColumns(n) ==
    <<"row">> \o SubSeq(SimpleValueColumns, 1, Min(n, Len(SimpleValueColumns)))

\* The rows of a messy with n value columns: a label and n numeric cells.
SimpleRows(n) ==
    LET vc == Range(SimpleColumns(n)) \ {"row"}
    IN  {[c \in Range(SimpleColumns(n)) |-> IF c = "row" THEN id ELSE v[c]] :
            id \in {"A", "B"}, v \in [vc -> {NaN, 1, 2}]}

\* messy as the notebook builds it: rows A, B, C and columns a, b, c.
NotebookMessy ==
    DataFrame(<<"row", "a", "b", "c">>,
              <<[row |-> "A", a |-> 1, b |-> 4, c |-> 7],
                [row |-> "B", a |-> 2, b |-> 5, c |-> 8],
                [row |-> "C", a |-> 3, b |-> 6, c |-> 9]>>)

\* Its first row alone.
ScenarioMessy ==
    DataFrame(<<"row", "a", "b", "c">>, <<[row |-> "A", a |-> 1, b |-> 4, c |-> 7]>>)

InitSimple ==
    /\ section = "simple"
    /\ pc = "melt"
    /\ \/ \E n \in 0..MaxCols :
            \E m \in 0..MaxRows :
              \E rws \in [1..m -> SimpleRows(n)] :
                messy = DataFrame(SimpleColumns(n), rws)
       \/ messy \in {NotebookMessy, ScenarioMessy}
    /\ id_vars = <<"row">>
    /\ molten = Undefined
    /\ tidy = Undefined
    /\ messy1 = Undefined
    /\ tidy_track = Undefined
    /\ tidy_rank = Undefined
    /\ error = NoError

\* tidy = pd.melt(messy, id_vars='row', var_name='dimension', value_name='length')
SimpleMelt ==
    /\ section = "simple" /\ pc = "melt"
    /\ tidy' = melt(messy, id_vars, "dimension", "length")
    /\ pc' = "pivot"
    /\ UNCHANGED <<section, messy, id_vars, molten, messy1, tidy_track, tidy_rank, error>>

\* messy1 = tidy.pivot(index='row', columns='dimension', values='length')
SimplePivot ==
    /\ section = "simple" /\ pc = "pivot"
    /\ LET p == pivot(tidy, "row", "dimension", "length")
       IN  IF p.ok
           THEN /\ messy1' = p.frame
                /\ error' = NoError
                /\ pc' = "reset_index"
           ELSE /\ messy1' = messy1
                /\ error' = p.error
                /\ pc' = "raised"
    /\ UNCHANGED <<section, messy, id_vars, molten, tidy, tidy_track, tidy_rank>>

\* messy1.reset_index(inplace=True); messy1.columns.name = ''
SimpleResetIndex ==
    /\ section = "simple" /\ pc = "reset_index"
    /\ messy1' = reset_index(messy1)
    /\ pc' = "done"
    /\ UNCHANGED <<section, messy, id_vars, molten, tidy, tidy_track, tidy_rank, error>>

NextSimple == SimpleMelt \/ SimplePivot \/ SimpleResetIndex

SpecSimple == InitSimple /\ [][NextSimple]_vars

(* ------------------------------ text ----------------------------------- *)

\* The characters of the text t.
RECURSIVE CharsOf(_, _)
CharsOf(t, table) ==
    IF table[1][1] = t THEN table[1][2] ELSE CharsOf(t, Tail(table))

\* The names the notebook slices, each with its characters.
Chars ==
    [t \in {"d1", "d2", "x2", "dx", "wk1", "wk2", "ab3", "wkx",
            "m04", "m014", "m514", "m65", "mu", "fu", "f65", "m5", "q014", "m0-4"} |->
        CharsOf(t, << <<"d1", <<"d", "1">> >>,
                      <<"d2", <<"d", "2">> >>,
                      <<"x2", <<"x", "2">> >>,
                      <<"dx", <<"d", "x">> >>,
                      <<"wk1", <<"w", "k", "1">> >>,
                      <<"wk2", <<"w", "k", "2">> >>,
                      <<"ab3", <<"a", "b", "3">> >>,
                      <<"wkx", <<"w", "k", "x">> >>,
                      <<"m04", <<"m", "0", "4">> >>,
                      <<"m014", <<"m", "0", "1", "4">> >>,
                      <<"m514", <<"m", "5", "1", "4">> >>,
                      <<"m65", <<"m", "6", "5">> >>,
                      <<"mu", <<"m", "u">> >>,
                      <<"fu", <<"f", "u">> >>,
                      <<"f65", <<"f", "6", "5">> >>,
                      <<"m5", <<"m", "5">> >>,
                      <<"q014", <<"q", "0", "1", "4">> >>,
                      <<"m0-4", <<"m", "0", "-", "4">> >> >>)]

Digits == <<"0", "1", "2", "3", "4", "5", "6", "7", "8", "9">>

\* s[n:] of Python, for n >= 0.
From(s, n) == SubSeq(s, n + 1, Len(s))

\* int(s) accepts s: a non-empty run of decimal digits.
IsInt(s) == Len(s) > 0 /\ \A i \in 1..Len(s) : s[i] \in Range(Digits)

DigitValue(ch) == (CHOOSE i \in 1..10 : Digits[i] = ch) - 1

\* int(s), for an s that int accepts.
RECURSIVE int(_)
int(s) ==
    IF s = <<>> THEN 0
    ELSE 10 * int(SubSeq(s, 1, Len(s) - 1)) + DigitValue(s[Len(s)])

\* int(s) raises ValueError("invalid literal for int() with base 10").
ValueError == "ValueError: invalid literal for int() with base 10"

(* ------------------------- dropna, selection --------------------------- *)

\* Some cell of row r is missing.
HasNa(r) == \E c \in DOMAIN r \cap NumericColumns : isna(r[c])

\* The positions of the set S, in ascending order.
Positions(S) ==
    LET Test(k) == k \in S
        top == IF S = {} THEN 0 ELSE CHOOSE m \in S : \A x \in S : x <= m
    IN  SelectSeq([k \in 1..top |-> k], Test)

\* df restricted to the rows at the positions keep, labels kept.
Take(df, keep) ==
    [names   |-> df.names,
     index   |-> [j \in 1..Len(keep) |-> df.index[keep[j]]],
     columns |-> df.columns,
     rows    |-> [j \in 1..Len(keep) |-> df.rows[keep[j]]]]

\* dropna that removes only the first of the rows with a missing cell.
dropna_first_only(df) ==
    LET bad == {k \in 1..len(df) : HasNa(df.rows[k])}
    IN  Take(df, Positions({k \in 1..len(df) :
                              k \notin bad \/ \E j \in bad : j < k}))

\* df.dropna(): the rows without a missing cell, in order, labels kept.
dropna(df) ==
    Take(df, Positions({k \in 1..len(df) : ~HasNa(df.rows[k])}))

\* df.reset_index(drop=True): the rows renumbered, the old labels dropped.
reset_index_drop(df) == DataFrame(df.columns, df.rows)

\* df[cols]: the columns cols, in that order.
Select(df, cols) ==
    [names   |-> df.names,
     index   |-> df.index,
     columns |-> cols,
     rows    |-> [k \in 1..len(df) |-> [c \in Range(cols) |-> df.rows[k][c]]]]

(* ----- "Variables are stored in both rows and columns (tricky)" -------- *)

\* The day columns of messy: d2 and d1, in an order that is not the sorted
\* one, or a single column whose name does not have the shape dN.
DayLayouts == {<<"d2", "d1">>, <<"x2">>, <<"dx">>}

WeatherIds == <<"id", "year", "month", "element">>

WeatherRows(days) ==
    {[c \in Range(WeatherIds) \cup Range(days) |->
        CASE c = "id" -> id
          [] c = "year" -> 2010
          [] c = "month" -> 2
          [] c = "element" -> el
          [] OTHER -> v[c]] :
        id \in {"MX17004", "MX17005"}, el \in {"tmax", "tmin"},
        v \in [Range(days) -> {NaN, 1, 2}]}

InitWeather ==
    /\ section = "weather"
    /\ pc = "melt"
    /\ \E days \in DayLayouts :
         \E m \in 0..MaxRows :
           \E rws \in [1..m -> WeatherRows(days)] :
             messy = DataFrame(WeatherIds \o days, rws)
    /\ id_vars = WeatherIds
    /\ molten = Undefined
    /\ tidy = Undefined
    /\ messy1 = Undefined
    /\ tidy_track = Undefined
    /\ tidy_rank = Undefined
    /\ error = NoError

\* molten = pd.melt(messy, id_vars=['id', 'year', 'month', 'element'], var_name='day')
\* molten.dropna(inplace=True); molten = molten.reset_index(drop=True)
WeatherMelt ==
    /\ section = "weather" /\ pc = "melt"
    /\ molten' = reset_index_drop(dropna(melt(messy, id_vars, "day", "value")))
    /\ pc' = "date"
    /\ UNCHANGED <<section, messy, id_vars, tidy, messy1, tidy_track, tidy_rank, error>>

\* f raises on row: int() rejects row['day'][1:].
f_raises(row) == ~IsInt(From(Chars[row["day"]], 1))

\* f(row) = "%d-%02d-%02d" % (row['year'], row['month'], int(row['day'][1:])):
\* the text of a date, held as its three numbers (the format writes each in
\* decimal, zero padded, so the text and the triple determine each other).
f(row) == <<row["year"], row["month"], int(From(Chars[row["day"]], 1))>>

\* molten['date'] = molten.apply(f, axis=1)
\* molten = molten[['id', 'element', 'value', 'date']].copy()
WeatherDate ==
    /\ section = "weather" /\ pc = "date"
    /\ IF \E k \in 1..len(molten) : f_raises(molten.rows[k])
       THEN /\ error' = ValueError
            /\ molten' = molten
            /\ pc' = "raised"
       ELSE /\ error' = NoError
            /\ molten' =
                 Select([molten EXCEPT
                           !.columns = molten.columns \o <<"date">>,
                           !.rows = [k \in 1..len(molten) |->
                                [c \in DOMAIN molten.rows[k] \cup {"date"} |->
                                    IF c = "date" THEN f(molten.rows[k])
                                    ELSE molten.rows[k][c]]]],
                        <<"id", "element", "value", "date">>)
            /\ pc' = "to_datetime"
    /\ UNCHANGED <<section, messy, id_vars, tidy, messy1, tidy_track, tidy_rank>>

\* pd.to_datetime of the text of a date: the day, as a number that orders
\* the days as the calendar does.
to_datetime(t) == t[1] * 10000 + t[2] * 100 + t[3]

\* molten['date'] = pd.to_datetime(molten['date'])
WeatherToDatetime ==
    /\ section = "weather" /\ pc = "to_datetime"
    /\ molten' = [molten EXCEPT !.rows = [k \in 1..len(molten) |->
                     [molten.rows[k] EXCEPT !["date"] = to_datetime(@)]]]
    /\ pc' = "pivot"
    /\ UNCHANGED <<section, messy, id_vars, tidy, messy1, tidy_track, tidy_rank, error>>

\* tidy = molten.pivot(index='date', columns='element', values='value')
WeatherPivot ==
    /\ section = "weather" /\ pc = "pivot"
    /\ LET p == pivot(molten, "date", "element", "value")
       IN  IF p.ok
           THEN /\ tidy' = p.frame
                /\ error' = NoError
           ELSE /\ tidy' = tidy
                /\ error' = p.error
    /\ pc' = "groupby"
    /\ UNCHANGED <<section, messy, id_vars, molten, messy1, tidy_track, tidy_rank>>

\* The frames of parts stacked, part k's labels prefixed by keys[k]; a cell
\* of a column its part does not have is NaN.
RECURSIVE Concat(_, _, _, _)
Concat(keys, parts, names, cols) ==
    IF parts = <<>>
    THEN [names |-> names, index |-> <<>>, columns |-> cols, rows |-> <<>>]
    ELSE LET n    == Len(parts)
             head == Concat(SubSeq(keys, 1, n - 1), SubSeq(parts, 1, n - 1), names, cols)
             last == parts[n]
         IN  [head EXCEPT
                !.index = @ \o [k \in 1..len(last) |-> <<keys[n], last.index[k]>>],
                !.rows  = @ \o [k \in 1..len(last) |->
                              [c \in Range(cols) |->
                                  IF c \in Range(last.columns)
                                  THEN last.rows[k][c] ELSE NaN]]]

\* The pivot of the whole frame, the groups ignored.
pivot_ungrouped(frame, by, index, columns, values) ==
    pivot(frame, index, columns, values)

\* frame.groupby(by).apply(pd.DataFrame.pivot, index=, columns=, values=):
\* the groups in ascending order of the key, each pivoted on its own; any
\* group that raises makes the whole call raise; the results are stacked
\* under the index (by, index).
groupby_apply_pivot(frame, by, index, columns, values) ==
    LET keys == SortSet({r[by] : r \in Range(frame.rows)}, by)
        Group(key) ==
            Take(frame, Positions({k \in 1..len(frame) : frame.rows[k][by] = key}))
        res == [k \in 1..Len(keys) |-> pivot(Group(keys[k]), index, columns, values)]
    IN  IF \E k \in 1..Len(keys) : ~res[k].ok
        THEN [ok |-> FALSE, error |-> DuplicateKeyError]
        ELSE [ok |-> TRUE,
              frame |-> Concat(keys, [k \in 1..Len(keys) |-> res[k].frame],
                               <<by, index>>,
                               Union([k \in 1..Len(keys) |-> res[k].frame.columns]))]

\* tidy = molten.groupby('id').apply(pd.DataFrame.pivot, index='date',
\*                                   columns='element', values='value')
WeatherGroupedPivot ==
    /\ section = "weather" /\ pc = "groupby"
    /\ LET p == groupby_apply_pivot(molten, "id", "date", "element", "value")
       IN  IF p.ok
           THEN /\ tidy' = p.frame
                /\ error' = NoError
                /\ pc' = "reset_index"
           ELSE /\ tidy' = tidy
                /\ error' = p.error
                /\ pc' = "raised"
    /\ UNCHANGED <<section, messy, id_vars, molten, messy1, tidy_track, tidy_rank>>

\* tidy.reset_index(inplace=True); tidy.columns.name = ''
WeatherResetIndex ==
    /\ section = "weather" /\ pc = "reset_index"
    /\ tidy' = reset_index(tidy)
    /\ pc' = "done"
    /\ UNCHANGED <<section, messy, id_vars, molten, messy1, tidy_track, tidy_rank, error>>

NextWeather ==
    \/ WeatherMelt
    \/ WeatherDate
    \/ WeatherToDatetime
    \/ WeatherPivot
    \/ WeatherGroupedPivot
    \/ WeatherResetIndex

SpecWeather == InitWeather /\ [][NextWeather]_vars

(* --------------------- "Multiple types in one table" -------------------- *)

\* r1 sorts before r2 on the columns by, the first column deciding first.
RECURSIVE LexLess(_, _, _)
LexLess(by, r1, r2) ==
    /\ by # <<>>
    /\ \/ Less(by[1], r1[by[1]], r2[by[1]])
       \/ r1[by[1]] = r2[by[1]] /\ LexLess(Tail(by), r1, r2)

\* The positions S of df in ascending order of the columns by, positions
\* with equal keys in their order in df.
RECURSIVE StableOrder(_, _, _)
StableOrder(df, by, S) ==
    IF S = {} THEN <<>>
    ELSE LET Before(i, j) ==
                 \/ LexLess(by, df.rows[i], df.rows[j])
                 \/ ~LexLess(by, df.rows[j], df.rows[i]) /\ i < j
             m == CHOOSE i \in S : \A j \in S \ {i} : Before(i, j)
         IN  <<m>> \o StableOrder(df, by, S \ {m})

\* df.sort_values(by=by) on several columns: a stable sort, labels kept.
sort_values(df, by) == Take(df, StableOrder(df, by, 1..len(df)))

\* The week columns of messy; the last two do not have the shape wkN.
WeekLayouts == {<<"wk1", "wk2">>, <<"ab3">>, <<"wkx">>}

BillboardIds == <<"year", "artist", "track", "time", "date entered">>

BillboardRows(weeks) ==
    {[c \in Range(BillboardIds) \cup Range(weeks) |->
        CASE c = "year" -> 2000
          [] c = "artist" -> artist
          [] c = "track" -> track
          [] c = "time" -> time
          [] c = "date entered" -> entered
          [] OTHER -> v[c]] :
        artist \in {"Aaliyah", "Adams"}, track \in {"Try Again", "Open My Heart"},
        time \in {"3:15", "4:22"}, entered \in {"2000-01-29", "2000-02-26"},
        v \in [Range(weeks) -> {1, 2}]}

InitBillboard ==
    /\ section = "billboard"
    /\ pc = "melt"
    /\ \E weeks \in WeekLayouts :
         \E m \in 0..MaxRows :
           \E rws \in [1..m -> BillboardRows(weeks)] :
             messy = DataFrame(BillboardIds \o weeks, rws)
    /\ id_vars = BillboardIds
    /\ molten = Undefined
    /\ tidy = Undefined
    /\ messy1 = Undefined
    /\ tidy_track = Undefined
    /\ tidy_rank = Undefined
    /\ error = NoError

\* molten = pd.melt(messy, id_vars=[...], var_name='week', value_name='rank')
\* molten.sort_values(by=['date entered', 'week'], inplace=True)
BillboardMelt ==
    /\ section = "billboard" /\ pc = "melt"
    /\ molten' = sort_values(melt(messy, id_vars, "week", "rank"),
                             <<"date entered", "week">>)
    /\ pc' = "week"
    /\ UNCHANGED <<section, messy, id_vars, tidy, messy1, tidy_track, tidy_rank, error>>

\* df with column col set, row by row, to cells[k] (appended when new).
Assign(df, col, cells) ==
    [df EXCEPT
       !.columns = IF col \in Range(@) THEN @ ELSE @ \o <<col>>,
       !.rows = [k \in 1..len(df) |->
                   [c \in DOMAIN df.rows[k] \cup {col} |->
                       IF c = col THEN cells[k] ELSE df.rows[k][c]]]]

\* molten['week'] = molten['week'].apply(lambda s: int(s[2:]))
BillboardWeek ==
    /\ section = "billboard" /\ pc = "week"
    /\ IF \E k \in 1..len(molten) : ~IsInt(From(Chars[molten.rows[k]["week"]], 2))
       THEN /\ error' = ValueError
            /\ molten' = molten
            /\ pc' = "raised"
       ELSE /\ error' = NoError
            /\ molten' = Assign(molten, "week",
                                [k \in 1..len(molten) |->
                                    int(From(Chars[molten.rows[k]["week"]], 2))])
            /\ pc' = "date"
    /\ UNCHANGED <<section, messy, id_vars, tidy, messy1, tidy_track, tidy_rank>>

\* datetime.strptime(text, "%Y-%m-%d"), as the day's proleptic ordinal.
strptime(text) ==
    CASE text = "2000-01-29" -> 730148
      [] text = "2000-02-26" -> 730176

\* increment_date(row): the first day of the row's week on the chart.
increment_date(row) == strptime(row["date entered"]) + 7 * (row["week"] - 1)

\* df.drop(col, axis=1)
drop(df, col) ==
    LET Kept(c) == c # col
    IN  Select(df, SelectSeq(df.columns, Kept))

\* molten['date'] = molten.apply(increment_date, axis=1)
\* molten.drop('date entered', axis=1, inplace=True)
BillboardDate ==
    /\ section = "billboard" /\ pc = "date"
    /\ molten' = drop(Assign(molten, "date",
                             [k \in 1..len(molten) |-> increment_date(molten.rows[k])]),
                      "date entered")
    /\ pc' = "track"
    /\ UNCHANGED <<section, messy, id_vars, tidy, messy1, tidy_track, tidy_rank, error>>

\* df.groupby(by).first(): one row per distinct key, the keys ascending, the
\* other columns at their first value in the group; the index is the key.
groupby_first(df, by) ==
    LET Key(k) == [i \in 1..Len(by) |-> df.rows[k][by[i]]]
        firsts == {k \in 1..len(df) : \A j \in 1..(k - 1) : Key(j) # Key(k)}
        order  == StableOrder(df, by, firsts)
        IsValue(c) == c \notin Range(by)
        rest   == SelectSeq(df.columns, IsValue)
    IN  [names   |-> by,
         index   |-> [g \in 1..Len(order) |-> Key(order[g])],
         columns |-> rest,
         rows    |-> [g \in 1..Len(order) |->
                        [c \in Range(rest) |-> df.rows[order[g]][c]]]]

\* df.rename(columns={old: new})
rename(df, old, new) ==
    [df EXCEPT
       !.columns = [i \in 1..Len(@) |-> IF @[i] = old THEN new ELSE @[i]],
       !.rows = [k \in 1..len(df) |->
                   [c \in (DOMAIN df.rows[k] \ {old}) \cup {new} |->
                       IF c = new THEN df.rows[k][old] ELSE df.rows[k][c]]]]

\* tidy_track = molten[['year', 'artist', 'track', 'time']]
\*                  .groupby(['year', 'artist', 'track']).first()
\* tidy_track.reset_index(inplace=True); tidy_track.reset_index(inplace=True)
\* tidy_track.rename(columns={'index': 'id'}, inplace=True)
BillboardTrack ==
    /\ section = "billboard" /\ pc = "track"
    /\ tidy_track' =
         rename(reset_index(reset_index(
                    groupby_first(Select(molten, <<"year", "artist", "track", "time">>),
                                  <<"year", "artist", "track">>))),
                "index", "id")
    /\ pc' = "rank"
    /\ UNCHANGED <<section, messy, id_vars, molten, tidy, messy1, tidy_rank, error>>

\* The rows of the sequence of sequences ss, one after the other.
RECURSIVE Flatten(_)
Flatten(ss) == IF ss = <<>> THEN <<>> ELSE Flatten(SubSeq(ss, 1, Len(ss) - 1)) \o ss[Len(ss)]

\* pd.merge(left, right, on=on): the inner join on the columns on; a row per
\* pair of a left and a right row that agree on them, in the order of left;
\* a column other than on that both frames have comes twice, as _x and _y.
merge(left, right, on) ==
    LET both == (Range(left.columns) \cap Range(right.columns)) \ Range(on)
        NameL(c) == IF c \in both THEN c \o "_x" ELSE c
        NameR(c) == IF c \in both THEN c \o "_y" ELSE c
        IsNew(c) == c \notin Range(on)
        rcols == SelectSeq(right.columns, IsNew)
        cols == [i \in 1..Len(left.columns) |-> NameL(left.columns[i])]
                  \o [i \in 1..Len(rcols) |-> NameR(rcols[i])]
        Agree(l, r) == \A i \in 1..Len(on) : l[on[i]] = r[on[i]]
        Joined(l, r) ==
            [c \in Range(cols) |->
                IF \E lc \in Range(left.columns) : NameL(lc) = c
                THEN l[CHOOSE lc \in Range(left.columns) : NameL(lc) = c]
                ELSE r[CHOOSE rc \in Range(rcols) : NameR(rc) = c]]
        Matches(l) ==
            LET hit == Positions({j \in 1..len(right) : Agree(l, right.rows[j])})
            IN  [h \in 1..Len(hit) |-> Joined(l, right.rows[hit[h]])]
    IN  DataFrame(cols, Flatten([k \in 1..len(left) |-> Matches(left.rows[k])]))

\* tidy_rank = pd.merge(molten, tidy_track, on='track')
\* tidy_rank = tidy_rank[['id', 'date', 'rank']]
BillboardRank ==
    /\ section = "billboard" /\ pc = "rank"
    /\ tidy_rank' = Select(merge(molten, tidy_track, <<"track">>), <<"id", "date", "rank">>)
    /\ pc' = "done"
    /\ UNCHANGED <<section, messy, id_vars, molten, tidy, messy1, tidy_track, error>>

NextBillboard ==
    \/ BillboardMelt
    \/ BillboardWeek
    \/ BillboardDate
    \/ BillboardTrack
    \/ BillboardRank

SpecBillboard == InitBillboard /\ [][NextBillboard]_vars

(* -------- "Variables are stored in both rows and columns" (TB) --------- *)

Max(a, b) == IF a > b THEN a ELSE b

\* The demographic columns of the file: a sex letter and an age range
\* (m014: males of 0 to 14, m65: 65 and more, mu: age unknown), and three
\* names that do not have that shape.
TbCodes == {"m04", "m014", "m514", "m65", "mu", "fu", "f65", "m5", "q014", "m0-4"}

\* messy has one or two of them as columns.
TbLayouts ==
    {<<c>> : c \in TbCodes}
        \cup {<<p[1], p[2]>> : p \in {q \in TbCodes \X TbCodes : q[1] # q[2]}}

TbIds == <<"country", "year">>

TbRows(codes) ==
    {[c \in Range(TbIds) \cup Range(codes) |->
        CASE c = "country" -> country
          [] c = "year" -> 2000
          [] OTHER -> v[c]] :
        country \in {"AE", "AD"}, v \in [Range(codes) -> {NaN, 5}]}

InitTb ==
    /\ section = "tb"
    /\ pc = "melt"
    /\ \E codes \in TbLayouts :
         \E m \in 0..MaxRows :
           \E rws \in [1..m -> TbRows(codes)] :
             messy = DataFrame(TbIds \o codes, rws)
    /\ id_vars = TbIds
    /\ molten = Undefined
    /\ tidy = Undefined
    /\ messy1 = Undefined
    /\ tidy_track = Undefined
    /\ tidy_rank = Undefined
    /\ error = NoError

\* molten = pd.melt(messy, id_vars=['country', 'year'], value_name='cases')
\* molten.sort_values(by=['year', 'country'], inplace=True)
TbMelt ==
    /\ section = "tb" /\ pc = "melt"
    /\ molten' = sort_values(melt(messy, id_vars, "variable", "cases"),
                             <<"year", "country">>)
    /\ pc' = "split"
    /\ UNCHANGED <<section, messy, id_vars, tidy, messy1, tidy_track, tidy_rank, error>>

\* lambda s: s[:1]
sex(s) == SubSeq(s, 1, Min(1, Len(s)))

\* parse_age that keeps one character after the dash instead of two.
parse_age_short_tail(s) ==
    LET t == From(s, 1)
    IN  IF t = <<"6", "5">> THEN <<"6", "5", "+">>
        ELSE SubSeq(t, 1, Len(t) - 2) \o <<"-">> \o SubSeq(t, Max(1, Len(t)), Len(t))

\* def parse_age(s): s = s[1:]; '65+' if s == '65', else s[:-2] + '-' + s[-2:]
parse_age(s) ==
    LET t == From(s, 1)
    IN  IF t = <<"6", "5">> THEN <<"6", "5", "+">>
        ELSE SubSeq(t, 1, Len(t) - 2) \o <<"-">> \o SubSeq(t, Max(1, Len(t) - 1), Len(t))

\* tidy = molten[molten['variable'] != 'mu'].copy()
\* tidy['sex'] = tidy['variable'].apply(lambda s: s[:1])
\* tidy['age'] = tidy['variable'].apply(parse_age)
\* tidy = tidy[['country', 'year', 'sex', 'age', 'cases']]
TbSplit ==
    /\ section = "tb" /\ pc = "split"
    /\ LET kept == Take(molten, Positions({k \in 1..len(molten) :
                                             molten.rows[k]["variable"] # "mu"}))
           Code(k) == Chars[kept.rows[k]["variable"]]
           sexes == Assign(kept, "sex", [k \in 1..len(kept) |-> sex(Code(k))])
           ages == Assign(sexes, "age", [k \in 1..len(kept) |-> parse_age(Code(k))])
       IN  tidy' = Select(ages, <<"country", "year", "sex", "age", "cases">>)
    /\ pc' = "done"
    /\ UNCHANGED <<section, messy, id_vars, molten, messy1, tidy_track, tidy_rank, error>>

NextTb == TbMelt \/ TbSplit

SpecTb == InitTb /\ [][NextTb]_vars

Init == InitIntro \/ InitSimple \/ InitTb \/ InitWeather \/ InitBillboard

Next == NextIntro \/ NextSimple \/ NextTb \/ NextWeather \/ NextBillboard

Spec == Init /\ [][Next]_vars

(* ------------------------ claims: introduction -------------------------- *)

\* C5: whatever the identifier columns, the molten table has (rows of
\* messy) x (columns of messy that are not identifiers) rows; the rows with
\* a missing value are among them.
C5_MeltRowCount ==
    (section = "intro" /\ pc # "melt") =>
        len(tidy) = len(messy) * (Len(messy.columns) - Len(id_vars))

\* Two rows and two treatment columns, one cell missing, melted on the two
\* name columns: four rows, the one with the missing value included.
C5_Witness ==
    /\ section = "intro" /\ pc = "done"
    /\ id_vars = <<"First", "Last">>
    /\ len(messy) = 2 /\ Len(messy.columns) = 4
    /\ isna(messy.rows[1]["Treatment A"])
    /\ len(tidy) = 4
    /\ isna(tidy.rows[1]["result"])

(* ----------------------- claims: simple example ------------------------- *)

\* No two rows of df agree on column col.
UniqueIn(df, col) ==
    \A i, j \in 1..len(df) : i # j => df.rows[i][col] # df.rows[j][col]

\* a and b hold the same rows (a row is its cells by column name, so the
\* order of the columns does not count), each as often in one as in the other.
SameTable(a, b) ==
    /\ len(a) = len(b)
    /\ \A x \in Range(a.rows) \cup Range(b.rows) :
          Cardinality({k \in 1..len(a) : a.rows[k] = x})
            = Cardinality({k \in 1..len(b) : b.rows[k] = x})

\* C1 as stated: whenever the labels of column 'row' are unique in messy,
\* melt, pivot and reset_index go through and messy1 ends as messy, up to
\* the order of the columns.
C1_RoundTripAnyTable ==
    (section = "simple" /\ UniqueIn(messy, "row")) =>
        /\ pc # "raised"
        /\ pc = "done" => SameTable(messy1, messy)

\* C1 amended: the same for a messy that has at least one column besides
\* 'row' (with none, melt has nothing to stack and the rows are lost).
C1_RoundTrip ==
    (section = "simple" /\ UniqueIn(messy, "row") /\ Len(messy.columns) > 1) =>
        /\ pc # "raised"
        /\ pc = "done" => SameTable(messy1, messy)

\* A round trip of two rows given out of order, two columns and a NaN cell.
C1_Witness ==
    /\ section = "simple" /\ pc = "done"
    /\ len(messy) = 2 /\ Len(messy.columns) = 3
    /\ messy.rows[1]["row"] = "B" /\ messy.rows[2]["row"] = "A"
    /\ \E c \in {"c", "a"} : isna(messy.rows[1][c])
    /\ messy.rows[1] # messy.rows[2]
    /\ SameTable(messy1, messy)

\* The molten row of source row i and value column c.
MoltenRow(i, c) ==
    [row |-> messy.rows[i]["row"], dimension |-> c, length |-> messy.rows[i][c]]

\* C6: after melt, tidy has the columns row, dimension, length and holds,
\* for every row i of messy and every column c besides 'row', the row
\* (row of i, c, cell of i at c) once, and nothing else; the row
\* [A, 1, 4, 7] gives exactly (A, a, 1), (A, b, 4), (A, c, 7).
C6_MeltContent ==
    (section = "simple" /\ pc # "melt") =>
        LET pairs == {<<i, c>> : i \in 1..len(messy),
                                 c \in Range(messy.columns) \ {"row"}}
        IN  /\ tidy.columns = <<"row", "dimension", "length">>
            /\ len(tidy) = Cardinality(pairs)
            /\ \A x \in Range(tidy.rows) \cup {MoltenRow(p[1], p[2]) : p \in pairs} :
                  Cardinality({k \in 1..len(tidy) : tidy.rows[k] = x})
                    = Cardinality({p \in pairs : MoltenRow(p[1], p[2]) = x})
            /\ messy = ScenarioMessy =>
                  tidy.rows = <<[row |-> "A", dimension |-> "a", length |-> 1],
                                [row |-> "A", dimension |-> "b", length |-> 4],
                                [row |-> "A", dimension |-> "c", length |-> 7]>>

\* The notebook's own messy, molten: nine rows.
C6_Witness ==
    /\ section = "simple" /\ pc = "pivot"
    /\ messy = NotebookMessy
    /\ len(tidy) = 9
    /\ tidy.rows[4] = [row |-> "A", dimension |-> "b", length |-> 4]

(* -------------------------- claims: TB example -------------------------- *)

IsDigit(ch) == ch \in Range(Digits)

\* code is a sex letter m or f followed by u, or by the digits of an age
\* range (at least two).
WellFormedCode(code) ==
    LET s == Chars[code]
    IN  /\ Len(s) >= 2
        /\ s[1] \in {"m", "f"}
        /\ \/ Tail(s) = <<"u">>
           \/ Len(s) >= 3 /\ \A i \in 2..Len(s) : IsDigit(s[i])

\* The code from its sex and its age: the age without the signs that
\* parse_age adds.
Reassemble(sx, age) ==
    LET Plain(ch) == ch \notin {"-", "+"}
    IN  sx \o SelectSeq(age, Plain)

\* The code of row j of tidy: the variable of the row of molten with the
\* same label.
CodeOf(j) ==
    molten.rows[CHOOSE k \in 1..len(molten) : molten.index[k] = tidy.index[j]]["variable"]

C10_MalformedCodeRaises ==
    (section = "tb" /\ pc = "done") =>
        \A j \in 1..len(tidy) : WellFormedCode(CodeOf(j))

\* The age part of code is u: the age is unknown.
UnknownAge(code) == Tail(Chars[code]) = <<"u">>

\* age is an age range: 65+, or two runs of digits with a dash between.
WellFormedAge(age) ==
    \/ age = <<"6", "5", "+">>
    \/ \E p \in 2..(Len(age) - 1) :
          /\ age[p] = "-"
          /\ \A i \in (1..Len(age)) \ {p} : IsDigit(age[i])

\* The columns of messy besides country and year are well-formed codes, of
\* the kinds that messy has in the notebook: age unknown, 65 and more, or a
\* range of three digits or more (the two-digit m04 and f04 are dropped
\* from messy before the melt).
WellFormedColumns ==
    \A c \in Range(messy.columns) \ Range(TbIds) :
        /\ WellFormedCode(c)
        /\ \/ UnknownAge(c)
           \/ Tail(Chars[c]) = <<"6", "5">>
           \/ Len(Chars[c]) >= 4

\* C12: after the split cell, tidy has no row that comes from a code whose
\* age part is u, of males or of females, and the age of every row is an
\* age range.
C12_NoUnknownAge ==
    (section = "tb" /\ pc = "done" /\ WellFormedColumns) =>
        \A j \in 1..len(tidy) :
            /\ ~UnknownAge(CodeOf(j))
            /\ WellFormedAge(tidy.rows[j]["age"])

(* ----------------------- claims: weather example ------------------------ *)

\* Two rows of molten have the same date and the same element.
RepeatedPair ==
    \E i, j \in 1..len(molten) :
        /\ i # j
        /\ molten.rows[i]["date"] = molten.rows[j]["date"]
        /\ molten.rows[i]["element"] = molten.rows[j]["element"]

\* C4: when a (date, element) pair labels more than one row of molten,
\* whether their values differ or not, the pivot cell ends in the duplicate
\* key error and assigns no table to tidy; it never keeps or combines values.
C4_PivotDuplicateRaises ==
    (section = "weather" /\ pc = "groupby" /\ RepeatedPair) =>
        /\ error = DuplicateKeyError
        /\ ~IsDefined(tidy)

\* The pivot cell has run on a molten with one pair repeated with two
\* different values and another repeated with the same value.
C4_Witness ==
    /\ section = "weather" /\ pc = "groupby"
    /\ error = DuplicateKeyError
    /\ \E i, j \in 1..len(molten) :
         /\ i # j
         /\ molten.rows[i]["date"] = molten.rows[j]["date"]
         /\ molten.rows[i]["element"] = molten.rows[j]["element"]
         /\ molten.rows[i]["value"] # molten.rows[j]["value"]
    /\ \E i, j \in 1..len(molten) :
         /\ i # j
         /\ molten.rows[i]["date"] = molten.rows[j]["date"]
         /\ molten.rows[i]["element"] = molten.rows[j]["element"]
         /\ molten.rows[i]["value"] = molten.rows[j]["value"]

\* The rows of molten with date d and element e.
Observed(d, e) ==
    {r \in Range(molten.rows) : r["date"] = d /\ r["element"] = e}

\* C7: when no (date, element) pair is repeated in molten, the pivot cell
\* gives tidy one row per date of molten, in ascending order, and one column
\* per element of molten, in ascending order; the cell of (date, element) is
\* the value of the molten row with that pair, and NaN when there is none.
C7_PivotShape ==
    (section = "weather" /\ pc = "groupby" /\ ~RepeatedPair) =>
        /\ error = NoError
        /\ IsDefined(tidy)
        /\ tidy.names = <<"date">>
        /\ Range(tidy.index) = {r["date"] : r \in Range(molten.rows)}
        /\ \A k \in 1..(Len(tidy.index) - 1) : tidy.index[k] < tidy.index[k + 1]
        /\ len(tidy) = Len(tidy.index)
        /\ Range(tidy.columns) = {r["element"] : r \in Range(molten.rows)}
        /\ \A k \in 1..(Len(tidy.columns) - 1) :
              StrPos(tidy.columns[k]) < StrPos(tidy.columns[k + 1])
        /\ \A k \in 1..len(tidy) :
              /\ DOMAIN tidy.rows[k] = Range(tidy.columns)
              /\ \A e \in Range(tidy.columns) :
                    IF Observed(tidy.index[k], e) = {}
                    THEN isna(tidy.rows[k][e])
                    ELSE \A r \in Observed(tidy.index[k], e) :
                            tidy.rows[k][e] = r["value"]

\* A pivot of a molten whose dates and elements both come in descending
\* order, with a pair that no row has.
C7_Witness ==
    /\ section = "weather" /\ pc = "groupby" /\ error = NoError
    /\ len(tidy) = 2 /\ Len(tidy.columns) = 2
    /\ len(molten) >= 2
    /\ molten.rows[1]["date"] > molten.rows[len(molten)]["date"]
    /\ molten.rows[1]["element"] = "tmin"
    /\ \E r \in Range(molten.rows) : r["element"] = "tmax"
    /\ \E k \in 1..2 : \E e \in {"tmax", "tmin"} :
         Observed(tidy.index[k], e) = {} /\ isna(tidy.rows[k][e])
    /\ \E k \in 1..2 : \E e \in {"tmax", "tmin"} : tidy.rows[k][e] = 2

\* C8: after the grouped pivot and reset_index, tidy has as many rows as
\* molten has distinct (id, date) pairs, every row carries an id and a date
\* column, and the (id, date) pairs of its rows are those of molten.
C8_GroupedPivotRowCount ==
    (section = "weather" /\ pc = "done") =>
        LET pairs == {<<r["id"], r["date"]>> : r \in Range(molten.rows)}
        IN  /\ len(tidy) = Cardinality(pairs)
            /\ \A k \in 1..len(tidy) : {"id", "date"} \subseteq DOMAIN tidy.rows[k]
            /\ {<<tidy.rows[k]["id"], tidy.rows[k]["date"]>> : k \in 1..len(tidy)} = pairs

\* Two stations observed on the same date, one for tmax and one for tmin:
\* the grouped pivot gives a row per station and date.
C8_Witness ==
    /\ section = "weather" /\ pc = "done"
    /\ \E k, l \in 1..len(tidy) :
         /\ tidy.rows[k]["id"] # tidy.rows[l]["id"]
         /\ tidy.rows[k]["date"] = tidy.rows[l]["date"]
    /\ Range(tidy.columns) = {"id", "date", "tmax", "tmin"}
    /\ \E k \in 1..len(tidy) : isna(tidy.rows[k]["tmax"]) /\ tidy.rows[k]["tmin"] = 2

\* The day columns of messy, in its order.
DayColumns ==
    LET IsDay(c) == c \notin Range(WeatherIds)
    IN  SelectSeq(messy.columns, IsDay)

\* The cells (row i, day column c) of messy that are missing.
MissingCells ==
    {p \in (1..len(messy)) \X Range(DayColumns) : isna(messy.rows[p[1]][p[2]])}

WeekColumns == messy.columns = BillboardIds \o <<"wk1", "wk2">>

\* C2: the fact table has exactly as many rows as the molten table: the
\* merge neither repeats nor loses an observation.
C2_FactRowPerObservation ==
    (section = "billboard" /\ pc = "done" /\ WeekColumns) => len(tidy_rank) = len(molten)

\* The per-entity attributes of the row of tidy_track with identifier id.
EntityOf(id) ==
    LET e == CHOOSE t \in Range(tidy_track.rows) : t["id"] = id
    IN  <<e["year"], e["artist"], e["track"], e["time"]>>

\* In molten, year, artist and track determine time: tidy_track, grouped on
\* those three, then has a row for every entity.
OneTimePerTrack ==
    \A r1, r2 \in Range(molten.rows) :
        <<r1["year"], r1["artist"], r1["track"]>> = <<r2["year"], r2["artist"], r2["track"]>>
            => r1["time"] = r2["time"]

\* C3: every fact row (id, date, rank) is an observation of the entity whose
\* id it carries: some molten row with that date and rank has the year,
\* artist, track and time of the row id of tidy_track; no fact row gets the
\* id of another entity with the same track title.
C3_FullNaturalKey ==
    (section = "billboard" /\ pc = "done" /\ WeekColumns /\ OneTimePerTrack) =>
        \A k \in 1..len(tidy_rank) :
            \E r \in Range(molten.rows) :
                /\ r["date"] = tidy_rank.rows[k]["date"]
                /\ r["rank"] = tidy_rank.rows[k]["rank"]
                /\ <<r["year"], r["artist"], r["track"], r["time"]>>
                     = EntityOf(tidy_rank.rows[k]["id"])

\* The (year, artist, track, time) combinations of the rows of df.
Entities(df) ==
    {<<r["year"], r["artist"], r["track"], r["time"]>> : r \in Range(df.rows)}

\* C11: once the track cell has run, tidy_track holds every combination of
\* year, artist, track and time that occurs in molten, one row each, and no
\* two of its rows have the same id.
C11_EntityRowPerCombination ==
    (section = "billboard" /\ pc \in {"rank", "done"} /\ WeekColumns) =>
        /\ Entities(tidy_track) = Entities(molten)
        /\ len(tidy_track) = Cardinality(Entities(molten))
        /\ \A i, j \in 1..len(tidy_track) :
              i # j => tidy_track.rows[i]["id"] # tidy_track.rows[j]["id"]

\* a and b are the same table.  The tables are compared as written out: a
\* column that holds text in one and numbers in the other makes them differ.
Identical(a, b) == ToString(a) = ToString(b)

\* C14: a step leaves the table it reads as it was.  In the billboard
\* section every cell after the melt reads molten: no step changes molten
\* once it is assigned, so that the cell can run again on the same table.
C14_StepsLeaveInputUnchanged ==
    [][(section = "billboard" /\ WeekColumns /\ IsDefined(molten))
          => Identical(molten', molten)]_vars

====
